---- MODULE Spec2Model ----
(***************************************************************************)
(* A model of structure_threader: the job dispatcher of                    *)
(* structure_threader.py (runprogram, structure_threader, main,            *)
(* gracious_exit, structure_harvester), the Evanno harvester of            *)
(* evanno/structureHarvester.py, the evidence merger of                    *)
(* wrappers/maverick_wrapper.py and the report of evanno/fastChooseK.py.   *)
(*                                                                         *)
(* Spec   : one run of structure_threader.main, from the installation of   *)
(*          the SIGINT handler to the end of the process.                  *)
(* SpecH  : one run of structureHarvester.main on a results directory.     *)
(* SpecM  : one call of maverick_wrapper.maverick_merger.                  *)
(* SpecF  : one call of fastChooseK.main.                                  *)
(***************************************************************************)
EXTENDS Integers, Sequences, FiniteSets, TLC

VARIABLES
    \* ---- structure_threader.main ----
    pc,           \* position of the main process
    wrapped_prog, \* "structure" | "fastStructure"
    argKs,        \* arg.Ks   (arg.minK is its default, 1)
    argReps,      \* arg.replicates
    threads,      \* size of the worker pool
    argLog,       \* arg.log as parsed by the main process
    notests,      \* arg.notests
    noplot,       \* arg.noplot
    cwd,          \* working directory of the main process
    jobs,         \* the list handed to Pool.map
    taken,        \* number of jobs the pool's workers have picked up
    wjob,         \* worker -> index of the job it runs (0: none)
    wstate,       \* worker -> "idle" | "busy" | "dead"
    wlog,         \* worker -> that worker process's copy of arg.log
    rc,           \* job -> exit status of its external program, once it ended
    pool,         \* job -> worker_status returned by runprogram, once returned
    children,     \* jobs whose external program is a live child process
    fs,           \* files written below arg.outpath
    errorList,    \* error_list of structure_threader
    harvArgs,     \* the binding of structureHarvester.main's parameters
    exitcode,     \* <<status>> once the main process has exited, <<>> before
    \* ---- structureHarvester.main ----
    hpc,          \* position inside structureHarvester.main
    nfiles,       \* number of files the '*_f' glob matched
    files,        \* what hc.readFile gave for each file read so far
    records,      \* data.records
    sortedKs,     \* data.sortedKs
    means,        \* data.estLnProbMeans
    vars2,        \* data.estLnProbStdevs, squared
    LnPK,         \* data.LnPK
    LnPPK,        \* data.LnPPK
    deltaK,       \* data.deltaK
    report,       \* the rows of evanno.txt
    written,      \* the files of outdir that were written
    hexit,        \* <<status>> once sys.exit ended the harvester, <<>> before
    herr,         \* which error ended the harvester
    \* ---- maverick_wrapper.maverick_merger ----
    mpc,          \* position inside maverick_merger
    k_list,       \* the K values, in the order given
    params,       \* the value of the parameter file's thermodynamic_on line
    no_tests,     \* the argument no_tests
    evidence,     \* K -> the data row of mav_K<K>/outputEvidence.csv
    fidx,         \* index in files_list of the file being merged
    header,       \* the local variable header
    column_num,   \* the local variable column_num
    ki,           \* index in k_list of the next K of the inner loop
    outfile,      \* the lines written to the open merged file
    merged,       \* files_list index -> the lines of the closed merged file
    log_evidence_mv, \* the dictionary, as its <<key, value>> pairs in order
    logged,       \* number of logging.error calls of mav_params_parser
    tifile,       \* <<best K text>> once bestK/TI_integration.txt is written
    mret,         \* what maverick_merger returned
    \* ---- fastChooseK.main ----
    fpc,          \* position inside fastChooseK.main
    fbest,        \* the two integers derived from the run outputs
    chooseK,      \* the lines of outdir/chooseK.txt
    fret          \* what fastChooseK.main returned

dvars == <<pc, wrapped_prog, argKs, argReps, threads, argLog, notests, noplot,
           cwd, jobs, taken, wjob, wstate, wlog, rc, pool, children, fs,
           errorList, harvArgs, exitcode>>
hvars == <<hpc, nfiles, files, records, sortedKs, means, vars2, LnPK, LnPPK,
           deltaK, report, written, hexit, herr>>
mvars == <<mpc, k_list, params, no_tests, evidence, fidx, header, column_num,
           ki, outfile, merged, log_evidence_mv, logged, tifile, mret>>
fvars == <<fpc, fbest, chooseK, fret>>
xvars == <<mvars, fvars>>
vars == <<dvars, hvars, xvars>>

\* ---------------------------------------------------------------- bounds
\* The largest batch (arg.Ks * arg.replicates) and the largest pool.
MaxJobs == 4
MaxThreads == 2

\* ------------------------------------------------------------- constants
\* None where a path is expected.
None == [dir |-> <<>>, file |-> <<>>]

\* ------------------------------------------------------------ text, paths
\* A file name is the sequence of its characters; a directory is the sequence
\* of its components; a file path is a directory and a file name.
Digits == <<"0", "1", "2", "3", "4", "5", "6", "7", "8", "9">>

RECURSIVE str(_)
str(n) ==
    IF n < 10 THEN <<Digits[n + 1]>>
    ELSE str(n \div 10) \o <<Digits[(n % 10) + 1]>>

join(dir, name) == [dir |-> dir, file |-> name]

endswith(s, suffix) ==
    /\ Len(s) >= Len(suffix)
    /\ SubSeq(s, Len(s) - Len(suffix) + 1, Len(s)) = suffix

CWD == <<"cwd">>
InDir == <<"indir">>
OutPath == <<"outpath">>

Reverse(s) == [i \in 1..Len(s) |-> s[Len(s) + 1 - i]]

\* list(itertools.product(Ks, replicates)): the last factor varies fastest.
product(Ks, reps) ==
    [i \in 1..(Len(Ks) * Len(reps)) |->
        <<Ks[((i - 1) \div Len(reps)) + 1], reps[((i - 1) % Len(reps)) + 1]>>]

range(lo, hi) == [i \in 1..(IF hi >= lo THEN hi - lo + 1 ELSE 0) |-> lo + i - 1]

\* ------------------------------------------------------------- runprogram
RunName(K, rep_num) == <<"K">> \o str(K) \o <<"_", "r", "e", "p">> \o str(rep_num)

\* output_file of runprogram.
OutputFile(prog, K, rep_num) ==
    IF prog = "structure"
    THEN join(OutPath, RunName(K, rep_num))
    ELSE join(OutPath, <<"f", "S", "_", "r", "u", "n", "_", "K">>)

\* The .stlog path of runprogram.
LogFile(K, rep_num) ==
    join(OutPath, RunName(K, rep_num) \o <<".", "s", "t", "l", "o", "g">>)

\* The file the external program leaves for the harvester and the plotter.
ResultFile(prog, K, rep_num) ==
    IF prog = "structure"
    THEN join(OutPath, RunName(K, rep_num) \o <<"_", "f">>)
    ELSE join(OutPath, <<"f", "S", "_", "r", "u", "n", "_", "K", ".">> \o str(K)
                       \o <<".", "m", "e", "a", "n", "Q">>)

\* The exit-code test inverted: "== 0" for "!= 0".
WorkerStatusInverted(returncode, output_file) ==
    IF returncode = 0 THEN <<-1, output_file>> ELSE <<0, None>>

\* worker_status after the exit-code test.
WorkerStatus(returncode, output_file) ==
    IF returncode # 0 THEN <<-1, output_file>> ELSE <<0, None>>

\* arg.log of the worker process after the exit-code test.
LogAfter(returncode, log) == IF returncode # 0 THEN TRUE ELSE log

\* error_list of structure_threader: [x[1] for x in pool if x[0] == -1],
\* over the statuses in the order of the jobs.
RECURSIVE ErrorListOver(_, _)
ErrorListOver(p, todo) ==
    IF todo = {} THEN <<>>
    ELSE LET i == CHOOSE x \in todo : \A y \in todo : x <= y
         IN (IF p[i][1] = -1 THEN <<p[i][2]>> ELSE <<>>)
            \o ErrorListOver(p, todo \ {i})

ErrorList(p) == ErrorListOver(p, DOMAIN p)

\* ------------------------------------------------------ structure_threader
Workers == 1..threads

\* The jobs list: the product of Ks and replicates, reversed.
Jobs(prog, Ks, replicates) ==
    Reverse(product(Ks, IF prog = "fastStructure" THEN <<1>> ELSE replicates))

\* A map that returns as soon as every job was handed to a worker.
MapReturnedOnDispatch == taken = Len(jobs)

\* Pool(threads).map(temp, jobs) has returned: a status for every job.
MapReturned == DOMAIN pool = 1..Len(jobs)

\* The first lines of structure_threader, up to the creation of the pool,
\* whose worker processes each start with a copy of arg.
Dispatch ==
    /\ pc = "main"
    /\ cwd' = IF wrapped_prog = "fastStructure" THEN cwd ELSE InDir
    /\ jobs' = Jobs(wrapped_prog, range(1, argKs), range(1, argReps))
    /\ wjob' = [w \in Workers |-> 0]
    /\ wstate' = [w \in Workers |-> "idle"]
    /\ wlog' = [w \in Workers |-> argLog]
    /\ pc' = "map"
    /\ UNCHANGED <<wrapped_prog, argKs, argReps, threads, argLog, notests,
                   noplot, taken, rc, pool, children, fs, errorList, harvArgs,
                   exitcode, hvars, xvars>>

\* An idle worker takes the next job of the list and runprogram starts the
\* external program (subprocess.Popen).
StartJob(w) ==
    /\ pc = "map"
    /\ wstate[w] = "idle"
    /\ taken < Len(jobs)
    /\ taken' = taken + 1
    /\ wjob' = [wjob EXCEPT ![w] = taken + 1]
    /\ wstate' = [wstate EXCEPT ![w] = "busy"]
    /\ children' = children \cup {taken + 1}
    /\ UNCHANGED <<pc, wrapped_prog, argKs, argReps, threads, argLog, notests,
                   noplot, cwd, jobs, wlog, rc, pool, fs, errorList, harvArgs,
                   exitcode, hvars, xvars>>

\* The external program of worker w ends with `returncode`; runprogram tests
\* it, writes the log when the worker's arg.log is set, and returns.
FinishJob(w, returncode) ==
    LET j == wjob[w]
        K == jobs[j][1]
        rep_num == jobs[j][2]
        log == LogAfter(returncode, wlog[w])
    IN
    /\ pc = "map"
    /\ wstate[w] = "busy"
    /\ rc' = (j :> returncode) @@ rc
    /\ children' = children \ {j}
    /\ wlog' = [wlog EXCEPT ![w] = log]
    /\ pool' = (j :> WorkerStatus(returncode, OutputFile(wrapped_prog, K, rep_num)))
                @@ pool
    /\ fs' = fs \cup (IF returncode = 0
                       THEN {ResultFile(wrapped_prog, K, rep_num)} ELSE {})
                \cup (IF log THEN {LogFile(K, rep_num)} ELSE {})
    /\ wstate' = [wstate EXCEPT ![w] = "idle"]
    /\ wjob' = [wjob EXCEPT ![w] = 0]
    /\ UNCHANGED <<pc, wrapped_prog, argKs, argReps, threads, argLog, notests,
                   noplot, cwd, jobs, taken, errorList, harvArgs, exitcode,
                   hvars, xvars>>

\* Pool.map returns; the summary is printed and the directory restored.
Join ==
    /\ pc = "map"
    /\ MapReturned
    /\ errorList' = ErrorList(pool)
    /\ cwd' = CWD
    /\ pc' = "tests"
    /\ UNCHANGED <<wrapped_prog, argKs, argReps, threads, argLog, notests,
                   noplot, jobs, taken, wjob, wstate, wlog, rc, pool, children,
                   fs, harvArgs, exitcode, hvars, xvars>>

\* ----------------------------------------------------- structure_harvester
\* The parameters of the harvester's main, in the order of its signature.
HarvesterParams(prog) ==
    IF prog = "fastStructure" THEN <<"indir", "outdir">>
    ELSE <<"outdir", "resultsdir">>

\* A positional call: the i-th parameter gets the i-th argument.
Bind(names, args) ==
    [name \in {names[i] : i \in DOMAIN names} |->
        args[CHOOSE i \in DOMAIN names : names[i] = name]]

\* sh.main(resultsdir, outdir), with outdir = resultsdir/bestK.
HarvesterCall(prog, resultsdir) ==
    Bind(HarvesterParams(prog), <<resultsdir, Append(resultsdir, "bestK")>>)

\* glob.glob(os.path.join(dir, '*' + suffix)) on the files written so far.
glob(dir, suffix) == {f \in fs : f.dir = dir /\ endswith(f.file, suffix)}

EvannoTxt == <<"e", "v", "a", "n", "n", "o", ".", "t", "x", "t">>
SummaryTxt == <<"s", "u", "m", "m", "a", "r", "y", ".", "t", "x", "t">>
ChooseKTxt == <<"c", "h", "o", "o", "s", "e", "K", ".", "t", "x", "t">>

\* if arg.notests is False: structure_harvester(arg.outpath, wrapped_prog),
\* up to its call of the harvester's main.
Tests ==
    /\ pc = "tests"
    /\ IF notests = FALSE
       THEN /\ harvArgs' = HarvesterCall(wrapped_prog, OutPath)
            /\ pc' = "harvest"
       ELSE /\ pc' = "plots"
            /\ UNCHANGED harvArgs
    /\ UNCHANGED <<wrapped_prog, argKs, argReps, threads, argLog, notests,
                   noplot, cwd, jobs, taken, wjob, wstate, wlog, rc, pool,
                   children, fs, errorList, exitcode, hvars, xvars>>

\* The harvester's main runs inside the main process: structureHarvester
\* exits with status 1 when its results directory holds no '_f' file and
\* writes its two reports otherwise; fastChooseK writes chooseK.txt.
Harvest ==
    /\ pc = "harvest"
    /\ IF wrapped_prog = "fastStructure"
       THEN /\ fs' = fs \cup {join(harvArgs.outdir, ChooseKTxt)}
            /\ pc' = "plots"
            /\ UNCHANGED exitcode
       ELSE IF glob(harvArgs.resultsdir, <<"_", "f">>) = {}
       THEN /\ pc' = "exited"
            /\ exitcode' = <<1>>
            /\ UNCHANGED fs
       ELSE /\ fs' = fs \cup {join(harvArgs.outdir, EvannoTxt),
                               join(harvArgs.outdir, SummaryTxt)}
            /\ pc' = "plots"
            /\ UNCHANGED exitcode
    /\ UNCHANGED <<wrapped_prog, argKs, argReps, threads, argLog, notests,
                   noplot, cwd, jobs, taken, wjob, wstate, wlog, rc, pool,
                   children, errorList, harvArgs, hvars, xvars>>

\* if arg.noplot is False: create_plts(arg.outpath, wrapped_prog); main ends.
Plots ==
    /\ pc = "plots"
    /\ pc' = "done"
    /\ UNCHANGED <<wrapped_prog, argKs, argReps, threads, argLog, notests,
                   noplot, cwd, jobs, taken, wjob, wstate, wlog, rc, pool,
                   children, fs, errorList, harvArgs, exitcode, hvars, xvars>>

\* ------------------------------------------------------------ gracious_exit
\* SIGINT reaches the main process, whose handler restores the directory and
\* raises SystemExit; the pool's daemonic workers end with the interpreter.
\* The handler signals nobody: the external programs end only when the
\* signal was sent to the whole foreground process group (`group`).
gracious_exit(group) ==
    /\ pc \in {"main", "map", "tests", "harvest", "plots"}
    /\ cwd' = CWD
    /\ exitcode' = <<0>>
    /\ pc' = "exited"
    /\ wstate' = [w \in DOMAIN wstate |-> "dead"]
    /\ children' = IF group THEN {} ELSE children
    /\ UNCHANGED <<wrapped_prog, argKs, argReps, threads, argLog, notests,
                   noplot, jobs, taken, wjob, wlog, rc, pool, fs, errorList,
                   harvArgs, hvars, xvars>>

\* ------------------------------------------------------------------- Spec
\* maverick_merger has not been entered.
MIdle ==
    /\ mpc = "idle"
    /\ k_list = <<>>
    /\ params = <<>>
    /\ no_tests = FALSE
    /\ evidence = <<>>
    /\ fidx = 0
    /\ header = FALSE
    /\ column_num = 0
    /\ ki = 0
    /\ outfile = <<>>
    /\ merged = <<>>
    /\ log_evidence_mv = <<>>
    /\ logged = 0
    /\ tifile = <<>>
    /\ mret = [returned |-> FALSE, none |-> FALSE, list |-> <<>>]

\* fastChooseK.main has not been entered.
FIdle ==
    /\ fpc = "idle"
    /\ fbest = <<>>
    /\ chooseK = <<>>
    /\ fret = [returned |-> FALSE, none |-> FALSE]

\* structureHarvester.main has not been entered.
HIdle ==
    /\ hpc = "idle"
    /\ nfiles = 0
    /\ files = <<>>
    /\ records = <<>>
    /\ sortedKs = <<>>
    /\ means = <<>>
    /\ vars2 = <<>>
    /\ LnPK = <<>>
    /\ LnPPK = <<>>
    /\ deltaK = <<>>
    /\ report = <<>>
    /\ written = {}
    /\ hexit = <<>>
    /\ herr = "none"

\* main, after signal.signal(signal.SIGINT, gracious_exit).
Init ==
    /\ pc = "main"
    /\ wrapped_prog \in {"structure", "fastStructure"}
    /\ argKs \in 1..MaxJobs
    /\ argReps \in 1..MaxJobs
    /\ argKs * argReps <= MaxJobs
    /\ threads \in 1..MaxThreads
    /\ argLog \in BOOLEAN
    /\ notests \in BOOLEAN
    /\ noplot \in BOOLEAN
    /\ cwd = CWD
    /\ jobs = <<>>
    /\ taken = 0
    /\ wjob = <<>>
    /\ wstate = <<>>
    /\ wlog = <<>>
    /\ rc = <<>>
    /\ pool = <<>>
    /\ children = {}
    /\ fs = {}
    /\ errorList = <<>>
    /\ harvArgs = <<>>
    /\ exitcode = <<>>
    /\ HIdle
    /\ MIdle
    /\ FIdle

Next ==
    \/ Dispatch
    \/ \E w \in DOMAIN wstate : StartJob(w)
    \/ \E w \in DOMAIN wstate : \E returncode \in {0, 1} : FinishJob(w, returncode)
    \/ Join
    \/ Tests
    \/ Harvest
    \/ Plots
    \/ \E group \in BOOLEAN : gracious_exit(group)

Spec == Init /\ [][Next]_vars

\* ====================================================== structureHarvester
\* estLnProbData is counted in units of 1e-8, so that EPSILON (1e-7) is 10.
\* A mean is the fraction <<sum, n>>; a standard deviation is kept as its
\* square, the fraction <<n*sum(x^2) - sum(x)^2, n*(n-1)>>.
\* An epsilon that tests for an exact zero only.
EpsilonZero == 10 - 10

EPSILON == 10

\* What hc.readFile can give for one file: a run, None with an error string,
\* or the exception hc.UnexpectedValue.
RunOf(k, est, f) == [kind |-> "run", k |-> k, est |-> est, file |-> f]
NoRun(f) == [kind |-> "none", k |-> 0, est |-> 0, file |-> f]
Raised(f) == [kind |-> "unexpected", k |-> 0, est |-> 0, file |-> f]

\* data.records.setdefault(run.k, []).append(run)
setdefaultAppend(recs, run) ==
    IF run.k \in DOMAIN recs
    THEN [recs EXCEPT ![run.k] = Append(@, run)]
    ELSE (run.k :> <<run>>) @@ recs

\* list(data.records.keys()): the keys in the order of their insertion.
RECURSIVE keys(_)
keys(fl) ==
    IF fl = <<>> THEN <<>>
    ELSE LET front == keys(SubSeq(fl, 1, Len(fl) - 1))
             last == fl[Len(fl)]
         IN IF last.kind = "run" /\ \A i \in DOMAIN front : front[i] # last.k
            THEN Append(front, last.k) ELSE front

\* list.sort(): ascending.
RECURSIVE insert(_, _)
insert(sorted, x) ==
    IF sorted = <<>> THEN <<x>>
    ELSE IF x <= sorted[1] THEN <<x>> \o sorted
    ELSE <<sorted[1]>> \o insert(Tail(sorted), x)

RECURSIVE sort(_)
sort(l) == IF l = <<>> THEN <<>> ELSE insert(sort(Tail(l)), l[1])

RECURSIVE SumEst(_)
SumEst(runs) == IF runs = <<>> THEN 0 ELSE runs[1].est + SumEst(Tail(runs))

RECURSIVE SumSq(_)
SumSq(runs) ==
    IF runs = <<>> THEN 0 ELSE runs[1].est * runs[1].est + SumSq(Tail(runs))

\* hc.calculateMeansAndSds: the mean and the sample standard deviation (n - 1
\* in the denominator, 0 for a single replicate) of estLnProbData per K.
Mean(runs) == <<SumEst(runs), Len(runs)>>
Variance(runs) ==
    IF Len(runs) < 2 THEN <<0, 1>>
    ELSE <<Len(runs) * SumSq(runs) - SumEst(runs) * SumEst(runs),
           Len(runs) * (Len(runs) - 1)>>

\* stdev > EPSILON, on the squares.
ExceedsEpsilon(v) == v[1] > EPSILON * EPSILON * v[2]

\* Fractions with positive denominators.
FSub(a, b) == <<a[1] * b[2] - b[1] * a[2], a[2] * b[2]>>
FAdd(a, b) == <<a[1] * b[2] + b[1] * a[2], a[2] * b[2]>>
FAbs(a) == <<IF a[1] < 0 THEN -a[1] ELSE a[1], a[2]>>

Elems(l) == {l[i] : i \in DOMAIN l}

\* hc.evannoTests: the unmet preconditions of the Evanno method (None when the
\* set is empty). The three conditions are taken at their weakest: three
\* distinct K, some K with two replicates, some K with both neighbours.
evannoTests(recs, Ks) ==
    (IF Len(Ks) < 3 THEN {"need >= 3 Ks"} ELSE {})
    \cup (IF \A k \in DOMAIN recs : Len(recs[k]) < 2
          THEN {"need at least 2 replicates at K"} ELSE {})
    \cup (IF \A k \in Elems(Ks) : ~({k - 1, k + 1} \subseteq Elems(Ks))
          THEN {"need a K with both neighbours"} ELSE {})

\* The K for which hc.calculatePrimesDoublePrimesDeltaK has both neighbours.
Interior(Ks) == {k \in Elems(Ks) : {k - 1, k + 1} \subseteq Elems(Ks)}

\* hc.calculatePrimesDoublePrimesDeltaK.
calcLnPK(Ks, m) == [k \in Interior(Ks) |-> FSub(m[k], m[k - 1])]
calcLnPPK(Ks, m) ==
    [k \in Interior(Ks) |-> FAbs(FAdd(FSub(m[k + 1], FAdd(m[k], m[k])), m[k - 1]))]
calcDeltaK(Ks, m, v) ==
    [k \in {x \in Interior(Ks) : ExceedsEpsilon(v[x])} |->
        [num |-> calcLnPPK(Ks, m)[k], stdev2 |-> v[k]]]

\* writeEvannoTableToFile: a derivative's cell.
NA == [fmt |-> "NA", arg |-> <<>>]

\* A lookup with a default of zero where the marker belongs.
CellStrZero(map, k) ==
    IF k \in DOMAIN map THEN [fmt |-> "%f", arg |-> <<map[k]>>]
    ELSE [fmt |-> "%f", arg |-> <<<<0, 1>>>>]

CellStr(map, k) ==
    IF k \in DOMAIN map THEN [fmt |-> "%f", arg |-> <<map[k]>>] ELSE NA

\* The loop started at the second K: range(1, len(data.sortedKs)).
EvannoTableFromSecond(Ks, recs, m, v, d1, d2, dk) ==
    [i \in 1..(Len(Ks) - 1) |->
        [k |-> Ks[i + 1], reps |-> Len(recs[Ks[i + 1]]), mean |-> m[Ks[i + 1]],
         stdev2 |-> v[Ks[i + 1]], LnPK |-> CellStr(d1, Ks[i + 1]),
         LnPPK |-> CellStr(d2, Ks[i + 1]), deltaK |-> CellStr(dk, Ks[i + 1])]]

\* writeEvannoTableToFile: the rows below the header, one per K of sortedKs.
EvannoTable(Ks, recs, m, v, d1, d2, dk) ==
    [i \in 1..Len(Ks) |->
        [k |-> Ks[i], reps |-> Len(recs[Ks[i]]), mean |-> m[Ks[i]],
         stdev2 |-> v[Ks[i]], LnPK |-> CellStr(d1, Ks[i]),
         LnPPK |-> CellStr(d2, Ks[i]), deltaK |-> CellStr(dk, Ks[i])]]

\* --------------------------------------------- structureHarvester.main
\* sys.exit(1) inside the harvester.
Exit1(why) ==
    /\ hexit' = <<1>>
    /\ herr' = why
    /\ hpc' = "exit"

\* harvestFiles: the glob matches nothing.
harvestNoFiles ==
    /\ hpc = "main"
    /\ nfiles' = 0
    /\ Exit1("nofiles")
    /\ UNCHANGED <<files, records, sortedKs, means, vars2, LnPK, LnPPK, deltaK,
                   report, written, dvars, xvars>>

\* harvestFiles: the glob matches n files; data.records = {}.
harvestGlob(n) ==
    /\ hpc = "main"
    /\ n >= 1
    /\ nfiles' = n
    /\ records' = <<>>
    /\ hpc' = "read"
    /\ UNCHANGED <<files, sortedKs, means, vars2, LnPK, LnPPK, deltaK, report,
                   written, hexit, herr, dvars, xvars>>

\* harvestFiles, one turn of the loop: hc.readFile gives a run.
harvestRun(k, est) ==
    /\ hpc = "read"
    /\ Len(files) < nfiles
    /\ files' = Append(files, RunOf(k, est, Len(files) + 1))
    /\ records' = setdefaultAppend(records, RunOf(k, est, Len(files) + 1))
    /\ UNCHANGED <<hpc, nfiles, sortedKs, means, vars2, LnPK, LnPPK, deltaK,
                   report, written, hexit, herr, dvars, xvars>>

\* The same turn, the file left out without an error.
harvestNoneSkipped ==
    /\ hpc = "read"
    /\ Len(files) < nfiles
    /\ files' = Append(files, NoRun(Len(files) + 1))
    /\ UNCHANGED <<hpc, hexit, herr, nfiles, records, sortedKs, means, vars2,
                   LnPK, LnPPK, deltaK, report, written, dvars, xvars>>

\* harvestFiles, one turn of the loop: hc.readFile gives None.
harvestNone ==
    /\ hpc = "read"
    /\ Len(files) < nfiles
    /\ files' = Append(files, NoRun(Len(files) + 1))
    /\ Exit1("parse")
    /\ UNCHANGED <<nfiles, records, sortedKs, means, vars2, LnPK, LnPPK, deltaK,
                   report, written, dvars, xvars>>

\* harvestFiles, one turn of the loop: hc.readFile raises UnexpectedValue.
harvestUnexpected ==
    /\ hpc = "read"
    /\ Len(files) < nfiles
    /\ files' = Append(files, Raised(Len(files) + 1))
    /\ Exit1("unexpected")
    /\ UNCHANGED <<nfiles, records, sortedKs, means, vars2, LnPK, LnPPK, deltaK,
                   report, written, dvars, xvars>>

\* harvestFiles after the loop: sortedKs.
harvestSorted ==
    /\ hpc = "read"
    /\ Len(files) = nfiles
    /\ sortedKs' = sort(keys(files))
    /\ hpc' = "stats"
    /\ UNCHANGED <<nfiles, files, records, means, vars2, LnPK, LnPPK, deltaK,
                   report, written, hexit, herr, dvars, xvars>>

\* hc.calculateMeansAndSds(data).
calculateMeansAndSds ==
    /\ hpc = "stats"
    /\ means' = [k \in DOMAIN records |-> Mean(records[k])]
    /\ vars2' = [k \in DOMAIN records |-> Variance(records[k])]
    /\ hpc' = "evanno"
    /\ UNCHANGED <<nfiles, files, records, sortedKs, LnPK, LnPPK, deltaK, report,
                   written, hexit, herr, dvars, xvars>>

\* The table written before the preconditions are tested.
evannoMethodFailsLate ==
    /\ hpc = "evanno"
    /\ evannoTests(records, sortedKs) # {}
    /\ written' = written \cup {EvannoTxt}
    /\ Exit1("precondition")
    /\ UNCHANGED <<nfiles, files, records, sortedKs, means, vars2, LnPK, LnPPK,
                   deltaK, report, dvars, xvars>>

\* evannoMethod: hc.evannoTests reports an unmet precondition.
evannoMethodFails ==
    /\ hpc = "evanno"
    /\ evannoTests(records, sortedKs) # {}
    /\ Exit1("precondition")
    /\ UNCHANGED <<nfiles, files, records, sortedKs, means, vars2, LnPK, LnPPK,
                   deltaK, report, written, dvars, xvars>>

\* evannoMethod: the derivatives are computed and evanno.txt is written.
evannoMethod ==
    /\ hpc = "evanno"
    /\ evannoTests(records, sortedKs) = {}
    /\ LnPK' = calcLnPK(sortedKs, means)
    /\ LnPPK' = calcLnPPK(sortedKs, means)
    /\ deltaK' = calcDeltaK(sortedKs, means, vars2)
    /\ report' = EvannoTable(sortedKs, records, means, vars2, LnPK', LnPPK', deltaK')
    /\ written' = written \cup {EvannoTxt}
    /\ hpc' = "summary"
    /\ UNCHANGED <<nfiles, files, records, sortedKs, means, vars2, hexit, herr,
                   dvars, xvars>>

\* hc.writeRawOutputToFile(os.path.join(outdir, 'summary.txt'), data).
writeRawOutputToFile ==
    /\ hpc = "summary"
    /\ written' = written \cup {SummaryTxt}
    /\ hpc' = "done"
    /\ UNCHANGED <<nfiles, files, records, sortedKs, means, vars2, LnPK, LnPPK,
                   deltaK, report, hexit, herr, dvars, xvars>>

\* ------------------------------------------------------------------ SpecH
MaxFiles == 4
MaxHK == 3
EstValues == {0, 5, 100}

\* structure_threader.main is not involved.
DIdle ==
    /\ pc = "none"
    /\ wrapped_prog = "structure"
    /\ argKs = 1
    /\ argReps = 1
    /\ threads = 1
    /\ argLog = FALSE
    /\ notests = FALSE
    /\ noplot = FALSE
    /\ cwd = CWD
    /\ jobs = <<>>
    /\ taken = 0
    /\ wjob = <<>>
    /\ wstate = <<>>
    /\ wlog = <<>>
    /\ rc = <<>>
    /\ pool = <<>>
    /\ children = {}
    /\ fs = {}
    /\ errorList = <<>>
    /\ harvArgs = <<>>
    /\ exitcode = <<>>

\* structureHarvester.main(outdir, resultsdir) is entered: data = hc.Data().
InitH ==
    /\ DIdle
    /\ MIdle
    /\ FIdle
    /\ hpc = "main"
    /\ nfiles = 0
    /\ files = <<>>
    /\ records = <<>>
    /\ sortedKs = <<>>
    /\ means = <<>>
    /\ vars2 = <<>>
    /\ LnPK = <<>>
    /\ LnPPK = <<>>
    /\ deltaK = <<>>
    /\ report = <<>>
    /\ written = {}
    /\ hexit = <<>>
    /\ herr = "none"

NextH ==
    \/ harvestNoFiles
    \/ \E n \in 1..MaxFiles : harvestGlob(n)
    \/ \E k \in 1..MaxHK : \E est \in EstValues : harvestRun(k, est)
    \/ harvestNone
    \/ harvestUnexpected
    \/ harvestSorted
    \/ calculateMeansAndSds
    \/ evannoMethodFails
    \/ evannoMethod
    \/ writeRawOutputToFile

SpecH == InitH /\ [][NextH]_vars

\* =================================================== claims on the dispatcher
Joined == pc \in {"tests", "harvest", "plots", "done"}
Failed == {j \in DOMAIN rc : rc[j] # 0}
JobOutput(j) == OutputFile(wrapped_prog, jobs[j][1], jobs[j][2])
JobLog(j) == LogFile(jobs[j][1], jobs[j][2])

\* C1: fault isolation. A job's non-zero exit stops nothing: while statuses
\* are missing some worker can still start or finish a job, every status
\* returned is (-1, output file) for a failed job and (0, None) for any other,
\* and once the map has returned with exactly one failed job, every job has
\* run and returned and the summary lists exactly that one failure.
C1_FaultIsolation ==
    /\ \A j \in DOMAIN pool :
          /\ j \in DOMAIN rc
          /\ pool[j] = IF rc[j] # 0 THEN <<-1, JobOutput(j)>> ELSE <<0, None>>
    /\ (pc = "map" /\ ~MapReturned) =>
          \E w \in DOMAIN wstate :
              wstate[w] = "busy" \/ (wstate[w] = "idle" /\ taken < Len(jobs))
    /\ (Joined /\ Cardinality(Failed) = 1) =>
          /\ DOMAIN rc = 1..Len(jobs)
          /\ DOMAIN pool = 1..Len(jobs)
          /\ Len(errorList) = 1
          /\ \A j \in Failed : errorList[1] = JobOutput(j)

C1_Witness ==
    /\ pc = "tests"
    /\ Len(jobs) >= 3
    /\ Cardinality(Failed) = 1
    /\ \E j \in Failed : j < Len(jobs)
    /\ Len(errorList) = 1

\* C2: full-batch barrier. The harvester's main is never called, and nothing
\* after it runs, unless every job of the list has returned its status and no
\* worker is still running one.
C2_Barrier ==
    (pc \in {"harvest", "plots", "done"} \/ DOMAIN harvArgs # {}) =>
        /\ DOMAIN pool = 1..Len(jobs)
        /\ taken = Len(jobs)
        /\ \A w \in DOMAIN wstate : wstate[w] # "busy"

C2_Witness ==
    /\ pc = "harvest"
    /\ Len(jobs) >= 2
    /\ DOMAIN pool = 1..Len(jobs)

\* C3: disjoint output paths. Any two distinct jobs that were started have
\* different output files and different log files.
C3_DisjointPaths ==
    \A i, j \in 1..taken :
        i # j => JobOutput(i) # JobOutput(j) /\ JobLog(i) # JobLog(j)

\* C4: job independence. A job whose program exited 0 while logging was not
\* requested has written no .stlog file.
C4_JobIndependence ==
    \A j \in DOMAIN rc : (rc[j] = 0 /\ argLog = FALSE) => JobLog(j) \notin fs

\* C5: cancellation. Once the interrupt handler has ended the process, no
\* external program is left running, no worker is left, and the working
\* directory is the original one.
C5_Cancellation ==
    (pc = "exited" /\ exitcode = <<0>>) =>
        /\ children = {}
        /\ \A w \in DOMAIN wstate : wstate[w] = "dead"
        /\ cwd = CWD

\* C6: layout coupling. For STRUCTURE the harvester's results directory is
\* arg.outpath, where the jobs left their K<k>_rep<r>_f files, and its report
\* directory is arg.outpath/bestK.
C6_LayoutCoupling ==
    (wrapped_prog = "structure" /\ DOMAIN harvArgs # {}) =>
        /\ harvArgs.resultsdir = OutPath
        /\ harvArgs.outdir = Append(OutPath, "bestK")
        /\ \A j \in DOMAIN rc :
              rc[j] = 0 =>
                ResultFile(wrapped_prog, jobs[j][1], jobs[j][2])
                    \in glob(harvArgs.resultsdir, <<"_", "f">>)

\* =================================================== claims on the harvester
Returned == hpc \in {"stats", "evanno", "summary", "done"} \/ herr = "precondition"
Computed == hpc \in {"summary", "done"}

\* C7: fatal harvesting errors. No matched file, a file that gives no run or
\* raises an unexpected value, and an unmet Evanno precondition each end the
\* harvester, always with status 1 and with neither evanno.txt nor
\* summary.txt written.
C7_FatalErrors ==
    /\ (hpc # "main" /\ nfiles = 0) => (hpc = "exit" /\ herr = "nofiles")
    /\ \A i \in DOMAIN files :
          /\ files[i].kind = "none" => (hpc = "exit" /\ herr = "parse")
          /\ files[i].kind = "unexpected" => (hpc = "exit" /\ herr = "unexpected")
    /\ (hpc \notin {"main", "read", "stats", "evanno"}
            /\ herr \notin {"nofiles", "parse", "unexpected"}
            /\ evannoTests(records, sortedKs) # {})
          => (hpc = "exit" /\ herr = "precondition")
    /\ (hpc = "exit" \/ herr # "none" \/ hexit # <<>>) =>
          /\ hpc = "exit"
          /\ hexit = <<1>>
          /\ herr \in {"nofiles", "parse", "unexpected", "precondition"}
          /\ EvannoTxt \notin written
          /\ SummaryTxt \notin written

C7_Witness ==
    /\ hpc = "exit"
    /\ herr = "precondition"
    /\ hexit = <<1>>
    /\ nfiles >= 2
    /\ written = {}

\* C8: no file is silently skipped. When harvestFiles has returned, every
\* matched file gave one run, records[k] is the runs of that K in the order
\* of their discovery, the records are as many as the files, and sortedKs is
\* the keys of records in strictly ascending order.
C8_NoFileSkipped ==
    Returned =>
        /\ Len(files) = nfiles
        /\ \A i \in DOMAIN files :
              /\ files[i].kind = "run"
              /\ files[i].k \in DOMAIN records
              /\ Cardinality({j \in DOMAIN records[files[i].k] :
                                records[files[i].k][j].file = i}) = 1
        /\ \A k \in DOMAIN records :
              records[k] = SelectSeq(files, LAMBDA f : f.k = k)
        /\ \A i \in 1..(Len(sortedKs) - 1) : sortedKs[i] < sortedKs[i + 1]
        /\ Elems(sortedKs) = DOMAIN records

C8_Witness ==
    /\ hpc = "stats"
    /\ nfiles >= 4
    /\ files[1].k > files[2].k
    /\ files[3].k = files[1].k
    /\ files[3].est # files[1].est
    /\ Len(sortedKs) >= 2

C11_ReportRows ==
    Computed =>
        /\ Len(report) = Len(sortedKs)
        /\ \A i \in 1..(Len(report) - 1) : report[i].k < report[i + 1].k
        /\ \A i \in DOMAIN report :
              LET k == sortedKs[i] IN
              /\ report[i].k = k
              /\ report[i].reps = Len(SelectSeq(files, LAMBDA f : f.k = k))
              /\ report[i].mean = means[k]
              /\ report[i].stdev2 = vars2[k]
              /\ IF k \in DOMAIN LnPK
                 THEN report[i].LnPK = [fmt |-> "%f", arg |-> <<LnPK[k]>>]
                 ELSE report[i].LnPK = NA /\ report[i].LnPK.fmt # "%f"
              /\ IF k \in DOMAIN LnPPK
                 THEN report[i].LnPPK = [fmt |-> "%f", arg |-> <<LnPPK[k]>>]
                 ELSE report[i].LnPPK = NA /\ report[i].LnPPK.fmt # "%f"
              /\ IF k \in DOMAIN deltaK
                 THEN report[i].deltaK = [fmt |-> "%f", arg |-> <<deltaK[k]>>]
                 ELSE report[i].deltaK = NA /\ report[i].deltaK.fmt # "%f"

C11_Witness ==
    /\ hpc = "done"
    /\ Len(report) = 3
    /\ report[1].reps = 1
    /\ report[2].reps = 2
    /\ report[2].deltaK # NA
    /\ report[2].LnPK.arg[1][1] # 0
    /\ report[3].LnPPK = NA

\* ------------------------------------------------------ maverick_wrapper.py
\* Text is a sequence of lines, a line a sequence of comma-separated fields,
\* a field a sequence of characters; every line ends with a newline.
MaxMK == 3
EvidenceValues == {-12, -7}

files_list == <<"outputEvidence.csv", "outputEvidenceDetails.csv">>

\* The thermodynamic_on line of the parameter file: <<>> when the file has
\* no such line, else the second word of the line.
ParamLines == {<<>>, <<"true">>, <<"f">>, <<"False">>, <<"0">>}

\* The lists of K values: not empty, no K twice, in any order.
KLists ==
    {l \in UNION {[1..n -> 1..MaxMK] : n \in 1..MaxMK} :
        \A i, j \in DOMAIN l : i # j => l[i] # l[j]}

\* A number as the external program prints it.
FloatText(v) == IF v < 0 THEN <<"-">> \o str(-v) ELSE str(v)

\* mav_K<K>/outputEvidence.csv: the header and one data row; the evidence of
\* the STRUCTURE estimator is the fourth field from the end, the evidence of
\* the thermodynamic integration the second from the end.
EvidenceHeader == <<<<"K">>, <<"s">>, <<"s", "e">>, <<"t">>, <<"t", "e">>>>
EvidenceRow(K, ev) ==
    <<str(K), FloatText(ev[K].structure), FloatText(0), FloatText(ev[K].ti),
      FloatText(0)>>

\* mav_K<K>/outputEvidenceDetails.csv: the header and one row per main
\* repeat of the run.
DetailsHeader == <<<<"K">>, <<"r">>, <<"t">>>>
DetailsRows(K, ev) ==
    [r \in 1..(1 + (K % 2)) |-> <<str(K), str(r), FloatText(ev[K].ti)>>]

MavFile(K, filename, ev) ==
    IF filename = "outputEvidence.csv"
    THEN <<EvidenceHeader, EvidenceRow(K, ev)>>
    ELSE <<DetailsHeader>> \o DetailsRows(K, ev)

\* str.lower() on the words of ParamLines.
lower(word) == IF word = "False" THEN "false" ELSE word

\* mav_params_parser: use_ti, and the number of errors it logs.
mav_params_parser(line) ==
    ~(line # <<>> /\ lower(line[1]) \in {"f", "false", "0"})
mav_params_logs(line) == IF mav_params_parser(line) THEN 0 ELSE 1

\* The header kept whatever get_header says.
mav_output_parser_keeps_header(infile, get_header) == infile

\* _mav_output_parser: readline, readlines, and the header put back when
\* get_header is True.
mav_output_parser(infile, get_header) ==
    LET first == infile[1]
        data == Tail(infile)
    IN  IF get_header THEN <<first>> \o data ELSE data

\* data.split(","): the last field of a line, its newline and the first
\* field of the next line are one element.
RECURSIVE split(_)
split(data) ==
    IF data = <<>> THEN <<<<>>>>
    ELSE LET line == data[1]
             rest == split(Tail(data))
         IN  SubSeq(line, 1, Len(line) - 1)
                 \o <<line[Len(line)] \o <<"\n">> \o rest[1]>>
                 \o Tail(rest)

\* str.strip() of the newlines at both ends.
RECURSIVE strip(_)
strip(word) ==
    IF word = <<>> THEN <<>>
    ELSE IF word[1] = "\n" THEN strip(Tail(word))
    ELSE IF word[Len(word)] = "\n" THEN strip(SubSeq(word, 1, Len(word) - 1))
    ELSE word

IsInt(word) ==
    /\ word # <<>>
    /\ \A i \in DOMAIN word : \E d \in DOMAIN Digits : Digits[d] = word[i]
DigitVal(c) == (CHOOSE d \in DOMAIN Digits : Digits[d] = c) - 1
RECURSIVE int(_)
int(word) ==
    IF word = <<>> THEN 0
    ELSE 10 * int(SubSeq(word, 1, Len(word) - 1)) + DigitVal(word[Len(word)])

\* float(): <<value>>, or <<>> where float raises ValueError.
float(word) ==
    LET t == strip(word)
        neg == t # <<>> /\ t[1] = "-"
        d == IF neg THEN Tail(t) ELSE t
    IN  IF IsInt(d) THEN <<IF neg THEN 0 - int(d) ELSE int(d)>> ELSE <<>>

\* A dictionary is the sequence of its <<key, value>> pairs in insertion
\* order; d[key] = value keeps the place of a key it already has.
setitem(d, key, value) ==
    IF \E i \in DOMAIN d : d[i][1] = key
    THEN [i \in DOMAIN d |-> IF d[i][1] = key THEN <<key, value>> ELSE d[i]]
    ELSE Append(d, <<key, value>>)

\* max(d, key=d.get): the first key, in insertion order, of maximal value.
maxKey(d) ==
    LET i == CHOOSE i \in DOMAIN d :
                 /\ \A j \in DOMAIN d : d[j][2] <= d[i][2]
                 /\ \A j \in 1..(i - 1) : d[j][2] < d[i][2]
    IN  d[i][1]

\* str.replace(old, new) for one-character old and new.
replace(word, old, new) ==
    [i \in DOMAIN word |-> IF word[i] = old THEN new ELSE word[i]]

\* for filename in files_list: header = True, column_num from the parameter
\* file, and the merged file opened for writing.
mergeOpen ==
    /\ mpc = "open"
    /\ header' = TRUE
    /\ column_num' = IF mav_params_parser(params) THEN -2 ELSE -4
    /\ logged' = logged + mav_params_logs(params)
    /\ outfile' = <<>>
    /\ ki' = 1
    /\ mpc' = "merge"
    /\ UNCHANGED <<k_list, params, no_tests, evidence, fidx, merged,
                   log_evidence_mv, tifile, mret, dvars, hvars, fvars>>

\* for i in k_list: one K parsed, recorded in log_evidence_mv when the file
\* is outputEvidence.csv, and written to the merged file.
mergeK ==
    /\ mpc = "merge"
    /\ ki <= Len(k_list)
    /\ LET i == k_list[ki]
           data == mav_output_parser(MavFile(i, files_list[fidx], evidence),
                                     header)
           fields == split(data)
           at == Len(fields) + 1 + column_num
           value == IF at \in DOMAIN fields THEN float(fields[at]) ELSE <<>>
       IN  IF files_list[fidx] = "outputEvidence.csv" /\ value = <<>>
           THEN /\ mpc' = "raised"
                /\ UNCHANGED <<header, ki, outfile, log_evidence_mv>>
           ELSE /\ header' = FALSE
                /\ log_evidence_mv' =
                      IF files_list[fidx] = "outputEvidence.csv"
                      THEN setitem(log_evidence_mv, fields[1], value[1])
                      ELSE log_evidence_mv
                /\ outfile' = outfile \o data
                /\ ki' = ki + 1
                /\ mpc' = mpc
    /\ UNCHANGED <<k_list, params, no_tests, evidence, fidx, column_num,
                   merged, logged, tifile, mret, dvars, hvars, fvars>>

\* outfile.close(), and the next file of files_list if there is one.
mergeClose ==
    /\ mpc = "merge"
    /\ ki > Len(k_list)
    /\ merged' = (files_list[fidx] :> outfile) @@ merged
    /\ IF fidx < Len(files_list)
       THEN fidx' = fidx + 1 /\ mpc' = "open"
       ELSE fidx' = fidx /\ mpc' = "tests"
    /\ UNCHANGED <<k_list, params, no_tests, evidence, header, column_num, ki,
                   outfile, log_evidence_mv, logged, tifile, mret, dvars,
                   hvars, fvars>>

\* if no_tests is False: _ti_test writes bestK/TI_integration.txt and the
\* merger returns [int(bestk)].
ti_test ==
    /\ mpc = "tests"
    /\ no_tests = FALSE
    /\ LET bestk == replace(maxKey(log_evidence_mv), "K", "1")
       IN  /\ tifile' = <<bestk>>
           /\ IF IsInt(strip(bestk))
              THEN /\ mret' = [returned |-> TRUE, none |-> FALSE,
                               list |-> <<int(strip(bestk))>>]
                   /\ mpc' = "done"
              ELSE /\ mret' = mret
                   /\ mpc' = "raised"
    /\ UNCHANGED <<k_list, params, no_tests, evidence, fidx, header,
                   column_num, ki, outfile, merged, log_evidence_mv, logged,
                   dvars, hvars, fvars>>

\* no_tests is not False: the function ends without a return statement.
mergeReturn ==
    /\ mpc = "tests"
    /\ no_tests = TRUE
    /\ mret' = [returned |-> TRUE, none |-> TRUE, list |-> <<>>]
    /\ mpc' = "done"
    /\ UNCHANGED <<k_list, params, no_tests, evidence, fidx, header,
                   column_num, ki, outfile, merged, log_evidence_mv, logged,
                   tifile, dvars, hvars, fvars>>

\* maverick_merger(outdir, k_list, params, no_tests) is entered: any list of
\* K values, any parameter file, any evidence in the files of the K values.
InitM ==
    /\ DIdle
    /\ HIdle
    /\ FIdle
    /\ mpc = "open"
    /\ k_list \in KLists
    /\ params \in ParamLines
    /\ no_tests \in BOOLEAN
    /\ evidence \in [Elems(k_list) ->
                        [structure : EvidenceValues, ti : EvidenceValues]]
    /\ fidx = 1
    /\ header = FALSE
    /\ column_num = 0
    /\ ki = 0
    /\ outfile = <<>>
    /\ merged = <<>>
    /\ log_evidence_mv = <<>>
    /\ logged = 0
    /\ tifile = <<>>
    /\ mret = [returned |-> FALSE, none |-> FALSE, list |-> <<>>]

NextM ==
    \/ mergeOpen
    \/ mergeK
    \/ mergeClose
    \/ ti_test
    \/ mergeReturn

SpecM == InitM /\ [][NextM]_vars

\* ------------------------------------------------ claims on maverick_merger
\* The K values of k_list whose evidence in the given column is maximal.
MaxEvidenceKs(column) ==
    {k \in Elems(k_list) :
        \A j \in Elems(k_list) : evidence[j][column] <= evidence[k][column]}

\* The data rows of the files of the K values of Ks, in the order of Ks.
RECURSIVE DataRows(_, _)
DataRows(filename, Ks) ==
    IF Ks = <<>> THEN <<>>
    ELSE Tail(MavFile(Ks[1], filename, evidence))
             \o DataRows(filename, Tail(Ks))

\* C12: best K by thermodynamic integration. When thermodynamic integration
\* is on and the tests are not disabled, maverick_merger returns, and writes
\* to bestK/TI_integration.txt, a K of k_list whose evidence at offset -2 of
\* its data row is maximal.
C12_BestKByTI ==
    (mpc = "done" /\ mav_params_parser(params) /\ no_tests = FALSE) =>
        /\ mret.returned
        /\ Len(mret.list) = 1
        /\ mret.list[1] \in MaxEvidenceKs("ti")
        /\ tifile = <<str(mret.list[1])>>

C15_MergeAscending ==
    \A f \in DOMAIN merged :
        merged[f] = <<MavFile(k_list[1], f, evidence)[1]>>
                        \o DataRows(f, sort(k_list))

\* C15, amended: each merged file is the header of the first K's file once,
\* then the data rows of every K of k_list, none lost, none twice and no
\* further header, the blocks of the K values in the order of k_list; after
\* the merge both files of files_list are written.
C15_MergeInListOrder ==
    /\ \A f \in DOMAIN merged :
          /\ merged[f] = <<MavFile(k_list[1], f, evidence)[1]>>
                             \o DataRows(f, k_list)
          /\ \A n \in 2..Len(merged[f]) : merged[f][n][1] # <<"K">>
          /\ \A k \in Elems(k_list) :
                Len(SelectSeq(merged[f], LAMBDA row : row[1] = str(k)))
                    = Len(MavFile(k, f, evidence)) - 1
    /\ mpc \in {"tests", "done"} => DOMAIN merged = Elems(files_list)

C15_Witness ==
    /\ mpc = "done"
    /\ k_list = <<3, 1, 2>>
    /\ Len(merged["outputEvidence.csv"]) = 4
    /\ Len(merged["outputEvidenceDetails.csv"]) = 6
    /\ merged["outputEvidenceDetails.csv"][2][1] = str(3)
    /\ merged["outputEvidenceDetails.csv"][6][1] = str(2)

\* ----------------------------------------------------------- fastChooseK.py
MaxChoose == 12

\* The two report lines of chooseK.txt, up to the number.
ComplexityLine ==
    <<"M", "o", "d", "e", "l", " ", "c", "o", "m", "p", "l", "e", "x", "i",
      "t", "y", " ", "t", "h", "a", "t", " ", "m", "a", "x", "i", "m", "i",
      "z", "e", "s", " ", "m", "a", "r", "g", "i", "n", "a", "l", " ", "l",
      "i", "k", "e", "l", "i", "h", "o", "o", "d", " ", "=", " ">>
ComponentsLine ==
    <<"M", "o", "d", "e", "l", " ", "c", "o", "m", "p", "o", "n", "e", "n",
      "t", "s", " ", "u", "s", "e", "d", " ", "t", "o", " ", "e", "x", "p",
      "l", "a", "i", "n", " ", "s", "t", "r", "u", "c", "t", "u", "r", "e",
      " ", "i", "n", " ", "d", "a", "t", "a", " ", "=", " ">>

\* The two report lines in the other order.
ReportLinesSwapped(best) ==
    <<ComponentsLine \o str(best[2]) \o <<"\n">>,
      ComplexityLine \o str(best[1]) \o <<"\n">>>>

\* The text of chooseK.txt for the two integers derived from the runs.
ReportLines(best) ==
    <<ComplexityLine \o str(best[1]) \o <<"\n">>,
      ComponentsLine \o str(best[2]) \o <<"\n">>>>

\* The trailing integer of a report line: the last blank-separated word.
TrailingInt(line) ==
    LET t == strip(line)
        p == CHOOSE i \in 0..Len(t) :
                 /\ i = 0 \/ t[i] = " "
                 /\ \A j \in (i + 1)..Len(t) : t[j] # " "
        word == SubSeq(t, p + 1, Len(t))
    IN  IF IsInt(word) THEN <<int(word)>> ELSE <<>>

\* main writes outdir/chooseK.txt.
chooseWrite ==
    /\ fpc = "main"
    /\ chooseK' = ReportLines(fbest)
    /\ fpc' = "report"
    /\ UNCHANGED <<fbest, fret, dvars, hvars, mvars>>

\* main ends without a value.
chooseReturn ==
    /\ fpc = "report"
    /\ fret' = [returned |-> TRUE, none |-> TRUE]
    /\ fpc' = "done"
    /\ UNCHANGED <<fbest, chooseK, dvars, hvars, mvars>>

\* fastChooseK.main(indir, outdir) is entered; the run outputs of indir give
\* any two integers.
InitF ==
    /\ DIdle
    /\ HIdle
    /\ MIdle
    /\ fpc = "main"
    /\ fbest \in (1..MaxChoose) \X (1..MaxChoose)
    /\ chooseK = <<>>
    /\ fret = [returned |-> FALSE, none |-> FALSE]

NextF ==
    \/ chooseWrite
    \/ chooseReturn

SpecF == InitF /\ [][NextF]_vars

\* C13: report of fastChooseK.main. main returns None and chooseK.txt is
\* exactly the two report lines, complexity first and components second,
\* each ending with its integer; the trailing integers of the two lines, in
\* file order, are the pair the lines were written from.
C13_ChooseKReport ==
    fpc = "done" =>
        /\ fret.returned /\ fret.none
        /\ Len(chooseK) = 2
        /\ chooseK[1] = ComplexityLine \o str(fbest[1]) \o <<"\n">>
        /\ chooseK[2] = ComponentsLine \o str(fbest[2]) \o <<"\n">>
        /\ <<TrailingInt(chooseK[1]), TrailingInt(chooseK[2])>>
               = <<<<fbest[1]>>, <<fbest[2]>>>>

C13_Witness ==
    /\ fpc = "done"
    /\ fret.none
    /\ fbest = <<2, 3>>
    /\ chooseK = <<ComplexityLine \o <<"2", "\n">>,
                   ComponentsLine \o <<"3", "\n">>>>
    /\ TrailingInt(chooseK[1]) = <<2>>
    /\ TrailingInt(chooseK[2]) = <<3>>

====
